---- MODULE Spec2Model ----
(***************************************************************************)
(* Model of the run tracker of tools/experiment_logger.py:                 *)
(* ExperimentLogger (start_run, log_params, log_metrics, log_artifact,     *)
(* end_run, get_runs) and the ExperimentRun context manager, over one      *)
(* JSON-lines log file; of run_pipeline_from_config of                     *)
(* tools/pipeline_runner.py; and of the chunked upload endpoints of        *)
(* src/promethium/api/routers/datasets.py.                                 *)
(*                                                                         *)
(* Python values are tagged records [kind, val]; the text written to the   *)
(* log file is a sequence of tokens: JSON texts (tagged with JSON's own    *)
(* kinds) and newlines.                                                    *)
(***************************************************************************)
EXTENDS Integers, Sequences, FiniteSets, TLC

VARIABLES
    current_run,   \* ExperimentLogger._current_run: None or the run dict
    run_id,        \* ExperimentLogger._run_id: None or a str
    log_file,      \* the file at self.log_file: [exists, text]
    now,           \* the wall clock read by datetime.now()
    uuid_count,    \* number of uuid4() values drawn so far
    scopes,        \* the ExperimentRun objects whose with-body is executing
    last,          \* the last call made: [op, raised, ret]
    calls,         \* history: the log_* calls made on the active run
    ended,         \* history: the run dicts that end_run calls have written
    ops,           \* number of state-changing steps taken so far
    trackers,      \* the ExperimentLogger objects of concurrent writers
    temp_dirs,     \* DATA_STORAGE_PATH/temp: upload_id -> chunk file name -> bytes
    storage,       \* DATA_STORAGE_PATH: file name -> bytes
    datasets,      \* the rows of the Dataset table
    upload_count,  \* number of uuid4() values drawn by init_upload
    uploaded       \* history: upload_id -> chunk_index -> bytes last uploaded

\* the state of the concurrent writers and of the upload endpoints
other_vars == <<trackers, temp_dirs, storage, datasets, upload_count, uploaded>>

vars == <<current_run, run_id, log_file, now, uuid_count, scopes, last, calls, ended, ops,
          trackers, temp_dirs, storage, datasets, upload_count, uploaded>>

----------------------------------------------------------------------------
(* Bounds of the model *)

\* state-changing steps in one behaviour: calls on the tracker that reach
\* an active run or start one, scope entries and exits, clock ticks
MaxOps == 4
\* ExperimentRun scopes open at the same time
MaxDepth == 1
\* runs a usage session writes to the log in one behaviour
MaxLogged == 2
\* upload sessions opened by init_upload in one behaviour
MaxUploads == 1

----------------------------------------------------------------------------
(* Python values *)

None == [kind |-> "None"]
Str(s) == [kind |-> "str", val |-> s]
Num(n) == [kind |-> "num", val |-> n]
Bool(b) == [kind |-> "bool", val |-> b]
List(s) == [kind |-> "list", val |-> s]
Dict(f) == [kind |-> "dict", val |-> f]
Exc(type, msg) == [kind |-> "exc", type |-> type, val |-> msg]

EmptyDict == Dict(<<>>)
EmptyList == List(<<>>)

\* d[k] = v on a dict
DictSet(d, k, v) ==
    Dict([x \in (DOMAIN d.val) \cup {k} |-> IF x = k THEN v ELSE d.val[x]])

\* d.update(items), items being the (key, value) pairs of the argument in
\* its iteration order
RECURSIVE DictUpdate(_, _)
DictUpdate(d, items) ==
    IF items = <<>> THEN d
    ELSE DictUpdate(DictSet(d, items[1][1], items[1][2]), Tail(items))

\* dict(items)
DictOf(items) == DictUpdate(EmptyDict, items)

\* variant of d.update(items) that keeps the value of a key d already has
\* (used by the first-wins variants of log_params and log_metrics below)
FirstWins(d, items) ==
    LET n == DictOf(items)
    IN  Dict([k \in (DOMAIN d.val) \cup (DOMAIN n.val) |->
                IF k \in DOMAIN d.val THEN d.val[k] ELSE n.val[k]])

\* d.get(k, default)
DictGet(d, k, default) == IF k \in DOMAIN d.val THEN d.val[k] ELSE default

\* str(uuid.uuid4())[:8]: the n-th value drawn
UUIDS == <<"a3f1c2d4", "0b9e8f7a", "5c6d7e8f", "91a2b3c4", "d4e5f6a7", "e6f7a8b9">>
uuid4(n) == UUIDS[n]

\* datetime.isoformat() and datetime.fromisoformat() on the clock values
ISO == <<"2024-01-01T00:00:00", "2024-01-01T00:00:01", "2024-01-01T00:00:02",
         "2024-01-01T00:00:03", "2024-01-01T00:00:04", "2024-01-01T00:00:05">>
isoformat(t) == Str(ISO[t + 1])
fromisoformat(s) == (CHOOSE i \in DOMAIN ISO : ISO[i] = s.val) - 1

----------------------------------------------------------------------------
(* json.dumps / json.loads *)

NL == [kind |-> "newline"]

RECURSIVE json_dumps(_)
json_dumps(v) ==
    CASE v.kind = "None" -> [kind |-> "null"]
      [] v.kind = "str"  -> [kind |-> "string", val |-> v.val]
      [] v.kind = "num"  -> [kind |-> "number", val |-> v.val]
      [] v.kind = "bool" -> [kind |-> IF v.val THEN "true" ELSE "false"]
      [] v.kind = "list" ->
            [kind |-> "array", val |-> [i \in DOMAIN v.val |-> json_dumps(v.val[i])]]
      [] v.kind = "dict" ->
            [kind |-> "object", val |-> [k \in DOMAIN v.val |-> json_dumps(v.val[k])]]

RECURSIVE json_loads(_)
json_loads(j) ==
    CASE j.kind = "null"   -> None
      [] j.kind = "string" -> Str(j.val)
      [] j.kind = "number" -> Num(j.val)
      [] j.kind = "true"   -> Bool(TRUE)
      [] j.kind = "false"  -> Bool(FALSE)
      [] j.kind = "array"  ->
            List([i \in DOMAIN j.val |-> json_loads(j.val[i])])
      [] j.kind = "object" ->
            Dict([k \in DOMAIN j.val |-> json_loads(j.val[k])])

\* the lines of a text: the token runs between newlines (a last line
\* without a newline included)
RECURSIVE SplitLines(_, _)
SplitLines(text, line) ==
    IF text = <<>> THEN (IF line = <<>> THEN <<>> ELSE <<line>>)
    ELSE IF Head(text) = NL THEN <<line>> \o SplitLines(Tail(text), <<>>)
    ELSE SplitLines(Tail(text), Append(line, Head(text)))

----------------------------------------------------------------------------
(* Inputs *)

\* log_params(params): the items of the dict passed, in its order
ParamArgs == { <<<<"lr", Num(1)>>, <<"epochs", Num(1)>>>> }
\* log_param(key, value)
ParamArg == { <<"lr", Num(2)>> }

\* log_metrics(metrics, step)
MetricArgs == { <<<<"snr", Num(1)>>>>, <<<<"mse", Num(1)>>, <<"snr", Num(2)>>>> }
StepArgs == { None, Num(0) }
\* log_metric(key, value, step)
MetricArg == { <<"mse", Num(2), None>> }

\* log_artifact(path, artifact_type)
ArtifactArgs == { <<"out/model.pt", "model">> }

\* start_run(pipeline, dataset, config_path, tags), all defaulted
StartArgs ==
    { [pipeline |-> None, dataset |-> None, config_path |-> None, tags |-> None] }

\* ExperimentRun(logger, **kwargs)
ScopeArgs ==
    { [pipeline |-> Str("unet"), dataset |-> Str("synthetic"),
       config_path |-> Str("cfg.yaml"), tags |-> Dict([team |-> Str("geo")])] }

\* end_run(status, error): status is any str, error any Optional[str]
EndArgs ==
    { <<"completed", None>>, <<"failed", Str("boom")>>,
      <<"cancelled", Str("boom")>>, <<"paused", None>> }

\* the errors a with-body raises, by their message
BodyErrors == {"boom"}

\* str(exc_val)
str(msg) == Str(msg)

----------------------------------------------------------------------------
(* ExperimentLogger: each method as a function of the tracker's fields,    *)
(* the log file and the method's arguments, giving the fields and the file *)
(* after the call, the exception raised (None when the call returns) and   *)
(* the value returned.                                                     *)

Outcome(cr, rid, lf, raised, ret) ==
    [current_run |-> cr, run_id |-> rid, log_file |-> lf, raised |-> raised, ret |-> ret]

NoActiveRun == Exc("RuntimeError", "No active run. Call start_run() first.")
NoRunToEnd == Exc("RuntimeError", "No active run to end.")
NotAList == Exc("AttributeError", "object has no attribute 'append'")
BadLine == Exc("JSONDecodeError", "Extra data")

\* ExperimentLogger.__init__
NewLogger == [current_run |-> None, run_id |-> None]

\* start_run that carries the parameters of a run still in memory over to
\* the new run
start_run_keeps_params(cr, rid, lf, args, u, t) ==
    LET id == Str(uuid4(u))
        run == Dict([
            run_id |-> id,
            experiment_id |-> Str("exp"),
            pipeline |-> args.pipeline,
            dataset |-> args.dataset,
            config_path |-> args.config_path,
            tags |-> IF args.tags = None THEN EmptyDict ELSE args.tags,
            parameters |-> IF cr = None THEN EmptyDict ELSE cr.val["parameters"],
            metrics |-> EmptyDict,
            artifacts |-> EmptyList,
            start_time |-> isoformat(t),
            end_time |-> None,
            status |-> Str("running"),
            error |-> None ])
    IN  Outcome(run, id, lf, None, id)

\* ExperimentLogger.start_run; u is the uuid drawn, t the clock read
start_run(cr, rid, lf, args, u, t) ==
    LET id == Str(uuid4(u))
        run == Dict([
            run_id |-> id,
            experiment_id |-> Str("exp"),
            pipeline |-> args.pipeline,
            dataset |-> args.dataset,
            config_path |-> args.config_path,
            tags |-> IF args.tags = None THEN EmptyDict ELSE args.tags,
            parameters |-> EmptyDict,
            metrics |-> EmptyDict,
            artifacts |-> EmptyList,
            start_time |-> isoformat(t),
            end_time |-> None,
            status |-> Str("running"),
            error |-> None ])
    IN  Outcome(run, id, lf, None, id)

\* log_params keeping the value a key already has
log_params_first_wins(cr, rid, lf, params) ==
    IF cr = None THEN Outcome(cr, rid, lf, NoActiveRun, None)
    ELSE Outcome(DictSet(cr, "parameters",
                         FirstWins(cr.val["parameters"], params)),
                 rid, lf, None, None)

\* ExperimentLogger.log_params
log_params(cr, rid, lf, params) ==
    IF cr = None THEN Outcome(cr, rid, lf, NoActiveRun, None)
    ELSE Outcome(DictSet(cr, "parameters", DictUpdate(cr.val["parameters"], params)),
                 rid, lf, None, None)

\* ExperimentLogger.log_param
log_param(cr, rid, lf, key, value) ==
    log_params(cr, rid, lf, <<<<key, value>>>>)

\* the loop of log_metrics over metrics.items() when a step is given:
\* [metrics, raised] after the items from the i-th on
RECURSIVE AppendSeries(_, _, _, _)
AppendSeries(m, items, step, t) ==
    IF items = <<>> THEN [metrics |-> m, raised |-> None]
    ELSE LET key == items[1][1]
             value == items[1][2]
             m1 == IF key \notin DOMAIN m.val THEN DictSet(m, key, EmptyList) ELSE m
             entry == Dict([step |-> step, value |-> value, timestamp |-> isoformat(t)])
         IN  IF m1.val[key].kind # "list"
             THEN [metrics |-> m1, raised |-> NotAList]
             ELSE AppendSeries(
                    DictSet(m1, key, List(Append(m1.val[key].val, entry))),
                    Tail(items), step, t)

\* log_metrics keeping the scalar a key already has
log_metrics_first_wins(cr, rid, lf, metrics, step, t) ==
    IF cr = None THEN Outcome(cr, rid, lf, NoActiveRun, None)
    ELSE IF step # None
    THEN LET r == AppendSeries(cr.val["metrics"], metrics, step, t)
         IN  Outcome(DictSet(cr, "metrics", r.metrics), rid, lf, r.raised, None)
    ELSE Outcome(DictSet(cr, "metrics",
                         FirstWins(cr.val["metrics"], metrics)),
                 rid, lf, None, None)

\* ExperimentLogger.log_metrics
log_metrics(cr, rid, lf, metrics, step, t) ==
    IF cr = None THEN Outcome(cr, rid, lf, NoActiveRun, None)
    ELSE IF step # None
    THEN LET r == AppendSeries(cr.val["metrics"], metrics, step, t)
         IN  Outcome(DictSet(cr, "metrics", r.metrics), rid, lf, r.raised, None)
    ELSE Outcome(DictSet(cr, "metrics", DictUpdate(cr.val["metrics"], metrics)),
                 rid, lf, None, None)

\* ExperimentLogger.log_metric
log_metric(cr, rid, lf, key, value, step, t) ==
    log_metrics(cr, rid, lf, <<<<key, value>>>>, step, t)

\* log_artifact returning silently when no run is active
log_artifact_silent(cr, rid, lf, path, artifact_type, t) ==
    IF cr = None THEN Outcome(cr, rid, lf, None, None)
    ELSE LET a == Dict([path |-> Str(path), type |-> Str(artifact_type),
                        logged_at |-> isoformat(t)])
         IN  Outcome(DictSet(cr, "artifacts", List(Append(cr.val["artifacts"].val, a))),
                     rid, lf, None, None)

\* ExperimentLogger.log_artifact
log_artifact(cr, rid, lf, path, artifact_type, t) ==
    IF cr = None THEN Outcome(cr, rid, lf, NoActiveRun, None)
    ELSE LET a == Dict([path |-> Str(path), type |-> Str(artifact_type),
                        logged_at |-> isoformat(t)])
         IN  Outcome(DictSet(cr, "artifacts", List(Append(cr.val["artifacts"].val, a))),
                     rid, lf, None, None)

\* the file opened with "w": the text is replaced
AppendLine_truncate(lf, line) == [exists |-> TRUE, text |-> <<line, NL>>]

\* the line written without its "\n"
AppendLine_no_newline(lf, line) == [exists |-> TRUE, text |-> lf.text \o <<line>>]

\* open(self.log_file, "a") followed by f.write(line + "\n")
AppendLine(lf, line) == [exists |-> TRUE, text |-> lf.text \o <<line, NL>>]

\* end_run that leaves the written run active
end_run_no_reset(cr, rid, lf, status, error, t) ==
    IF cr = None THEN Outcome(cr, rid, lf, NoRunToEnd, None)
    ELSE LET r3 == DictSet(DictSet(DictSet(cr, "end_time", isoformat(t)),
                                   "status", Str(status)), "error", error)
             r4 == DictSet(r3, "duration_seconds",
                           Num(fromisoformat(r3.val["end_time"])
                               - fromisoformat(r3.val["start_time"])))
         IN  Outcome(r4, rid, AppendLine(lf, json_dumps(r4)), None, None)

\* end_run computing the duration as start - end
end_run_negative_duration(cr, rid, lf, status, error, t) ==
    IF cr = None THEN Outcome(cr, rid, lf, NoRunToEnd, None)
    ELSE LET r3 == DictSet(DictSet(DictSet(cr, "end_time", isoformat(t)),
                                   "status", Str(status)), "error", error)
             r4 == DictSet(r3, "duration_seconds",
                           Num(fromisoformat(r3.val["start_time"])
                               - fromisoformat(r3.val["end_time"])))
         IN  Outcome(None, None, AppendLine(lf, json_dumps(r4)), None, None)

\* end_run returning silently when no run is active
end_run_silent(cr, rid, lf, status, error, t) ==
    IF cr = None THEN Outcome(cr, rid, lf, None, None)
    ELSE LET r3 == DictSet(DictSet(DictSet(cr, "end_time", isoformat(t)),
                                   "status", Str(status)), "error", error)
             r4 == DictSet(r3, "duration_seconds",
                           Num(fromisoformat(r3.val["end_time"])
                               - fromisoformat(r3.val["start_time"])))
         IN  Outcome(None, None, AppendLine(lf, json_dumps(r4)), None, None)

\* ExperimentLogger.end_run
end_run(cr, rid, lf, status, error, t) ==
    IF cr = None THEN Outcome(cr, rid, lf, NoRunToEnd, None)
    ELSE LET r1 == DictSet(cr, "end_time", isoformat(t))
             r2 == DictSet(r1, "status", Str(status))
             r3 == DictSet(r2, "error", error)
             start == fromisoformat(r3.val["start_time"])
             end == fromisoformat(r3.val["end_time"])
             r4 == DictSet(r3, "duration_seconds", Num(end - start))
         IN  Outcome(None, None, AppendLine(lf, json_dumps(r4)), None, None)

\* end_run when the file system refuses the log file: open() raises (the
\* file is as it was), or f.write() raises after open() has created the
\* file; the lines before the with statement have run
WriteFailed == Exc("OSError", "No space left on device")
end_run_fails(cr, rid, lf, status, error, t, at) ==
    IF cr = None THEN Outcome(cr, rid, lf, NoRunToEnd, None)
    ELSE LET r1 == DictSet(cr, "end_time", isoformat(t))
             r2 == DictSet(r1, "status", Str(status))
             r3 == DictSet(r2, "error", error)
             start == fromisoformat(r3.val["start_time"])
             end == fromisoformat(r3.val["end_time"])
             r4 == DictSet(r3, "duration_seconds", Num(end - start))
         IN  Outcome(r4, rid,
                     IF at = "open" THEN lf ELSE [exists |-> TRUE, text |-> lf.text],
                     WriteFailed, None)

\* ExperimentLogger.get_runs: [raised, ret]
RECURSIVE ParseLines(_)
ParseLines(lines) ==
    IF lines = <<>> THEN [raised |-> None, ret |-> <<>>]
    ELSE IF Head(lines) = <<>> THEN ParseLines(Tail(lines))
    ELSE IF Len(Head(lines)) > 1 THEN [raised |-> BadLine, ret |-> <<>>]
    ELSE LET rest == ParseLines(Tail(lines))
         IN  IF rest.raised # None THEN rest
             ELSE [raised |-> None, ret |-> <<json_loads(Head(lines)[1])>> \o rest.ret]

get_runs(lf) ==
    IF lf.exists THEN ParseLines(SplitLines(lf.text, <<>>))
    ELSE [raised |-> None, ret |-> <<>>]

\* float('-inf') and float('inf')
NegInf == [kind |-> "-inf"]
PosInf == [kind |-> "inf"]

\* the int a number is: bool is a subclass of int, True is 1 and False is 0
IntOf(v) == IF v.kind = "bool" THEN (IF v.val THEN 1 ELSE 0) ELSE v.val

\* a < b on numbers and the two infinities
Less(a, b) ==
    CASE a.kind = "-inf" -> b.kind # "-inf"
      [] a.kind = "inf"  -> FALSE
      [] OTHER -> CASE b.kind = "-inf" -> FALSE
                    [] b.kind = "inf"  -> TRUE
                    [] OTHER -> IntOf(a) < IntOf(b)

\* get_metric_value with -inf for a missing value whatever maximize is
get_metric_value_neg_inf(run, metric, maximize) ==
    LET val == DictGet(DictGet(run, "metrics", EmptyDict), metric, None)
    IN  IF val.kind = "list"
        THEN (IF val.val # <<>> THEN val.val[Len(val.val)].val["value"] ELSE NegInf)
        ELSE (IF val # None THEN val ELSE NegInf)

\* get_metric_value taking the first entry of a time series
get_metric_value_first_entry(run, metric, maximize) ==
    LET val == DictGet(DictGet(run, "metrics", EmptyDict), metric, None)
        missing == IF maximize THEN NegInf ELSE PosInf
    IN  IF val.kind = "list"
        THEN (IF val.val # <<>> THEN val.val[1].val["value"] ELSE missing)
        ELSE (IF val # None THEN val ELSE missing)

\* get_best_run.get_metric_value
get_metric_value(run, metric, maximize) ==
    LET val == DictGet(DictGet(run, "metrics", EmptyDict), metric, None)
        missing == IF maximize THEN NegInf ELSE PosInf
    IN  IF val.kind = "list"
        THEN (IF val.val # <<>> THEN val.val[Len(val.val)].val["value"] ELSE missing)
        ELSE (IF val # None THEN val ELSE missing)

\* the scan keeping the later of two runs with equal keys
RECURSIVE BestFrom_last_wins(_, _, _, _, _)
BestFrom_last_wins(runs, i, best, metric, maximize) ==
    IF i > Len(runs) THEN best
    ELSE LET a == get_metric_value(runs[i], metric, maximize)
             b == get_metric_value(best, metric, maximize)
             worse == IF maximize THEN Less(a, b) ELSE Less(b, a)
         IN  BestFrom_last_wins(runs, i + 1, IF worse THEN best ELSE runs[i], metric, maximize)

\* max(runs, key=get_metric_value) / min(runs, key=get_metric_value): the
\* scan from the i-th run on, best being the run kept so far
RECURSIVE BestFrom(_, _, _, _, _)
BestFrom(runs, i, best, metric, maximize) ==
    IF i > Len(runs) THEN best
    ELSE LET a == get_metric_value(runs[i], metric, maximize)
             b == get_metric_value(best, metric, maximize)
             better == IF maximize THEN Less(b, a) ELSE Less(a, b)
         IN  BestFrom(runs, i + 1, IF better THEN runs[i] ELSE best, metric, maximize)

\* get_best_run returning the first run
get_best_run_first(lf, metric, maximize) ==
    LET r == get_runs(lf)
    IN  IF r.raised # None THEN [raised |-> r.raised, ret |-> None]
        ELSE IF r.ret = <<>> THEN [raised |-> None, ret |-> None]
        ELSE [raised |-> None, ret |-> r.ret[1]]

\* ExperimentLogger.get_best_run: [raised, ret]
get_best_run(lf, metric, maximize) ==
    LET r == get_runs(lf)
    IN  IF r.raised # None THEN [raised |-> r.raised, ret |-> None]
        ELSE IF r.ret = <<>> THEN [raised |-> None, ret |-> None]
        ELSE [raised |-> None, ret |-> BestFrom(r.ret, 2, r.ret[1], metric, maximize)]

\* the i-th to last elements of runs that satisfy the status test
RECURSIVE WithStatus(_, _)
WithStatus(runs, status) ==
    IF runs = <<>> THEN <<>>
    ELSE (IF DictGet(Head(runs), "status", None) = Str(status) THEN <<Head(runs)>> ELSE <<>>)
         \o WithStatus(Tail(runs), status)

\* the loop of get_summary over the completed runs: the values each holds
\* for key that pass isinstance(value, (int, float)), in run order
RECURSIVE ValuesOf(_, _)
ValuesOf(completed, key) ==
    IF completed = <<>> THEN <<>>
    ELSE LET value == DictGet(DictGet(Head(completed), "metrics", EmptyDict), key, None)
         IN  (IF value.kind \in {"num", "bool"} THEN <<value>> ELSE <<>>)
             \o ValuesOf(Tail(completed), key)

\* sum(values); min(values) and max(values) return the first extremal element
RECURSIVE SumOf(_)
SumOf(values) == IF values = <<>> THEN 0 ELSE IntOf(Head(values)) + SumOf(Tail(values))
MinOf(values) ==
    values[CHOOSE i \in DOMAIN values :
             \A j \in DOMAIN values :
                (IntOf(values[i]) <= IntOf(values[j]))
                /\ ((IntOf(values[i]) = IntOf(values[j])) => (i <= j))]
MaxOf(values) ==
    values[CHOOSE i \in DOMAIN values :
             \A j \in DOMAIN values :
                (IntOf(values[i]) >= IntOf(values[j]))
                /\ ((IntOf(values[i]) = IntOf(values[j])) => (i <= j))]

\* a / b as a float: the fraction in lowest terms
RECURSIVE Gcd(_, _)
Gcd(a, b) == IF b = 0 THEN a ELSE Gcd(b, a % b)
TrueDiv(a, b) ==
    LET g == Gcd(IF a < 0 THEN -a ELSE a, b)
    IN  [kind |-> "float", num |-> a \div g, den |-> b \div g]

\* the statistics of get_summary for the runs given as completed
MetricStats(completed) ==
    LET keys == UNION {DOMAIN DictGet(completed[i], "metrics", EmptyDict).val :
                         i \in DOMAIN completed}
        stats(key) ==
            LET values == ValuesOf(completed, key)
            IN  Dict([mean |-> TrueDiv(SumOf(values), Len(values)),
                      min |-> MinOf(values),
                      max |-> MaxOf(values),
                      count |-> Num(Len(values))])
    IN  Dict([key \in {k \in keys : ValuesOf(completed, k) # <<>>} |-> stats(key)])

\* the dict get_summary returns for the runs read
Summary(runs, completed, failed) ==
    IF runs = <<>>
    THEN Dict([experiment_id |-> Str("exp"), total_runs |-> Num(0),
               completed |-> Num(0), failed |-> Num(0)])
    ELSE Dict([experiment_id |-> Str("exp"),
               total_runs |-> Num(Len(runs)),
               completed |-> Num(Len(completed)),
               failed |-> Num(Len(failed)),
               metric_summary |-> MetricStats(completed),
               first_run |-> DictGet(runs[1], "start_time", None),
               last_run |-> DictGet(runs[Len(runs)], "start_time", None)])

\* get_summary aggregating the metrics of all runs
get_summary_all_runs(lf) ==
    LET r == get_runs(lf)
    IN  IF r.raised # None THEN [raised |-> r.raised, ret |-> None]
        ELSE [raised |-> None,
              ret |-> Summary(r.ret, r.ret, WithStatus(r.ret, "failed"))]

\* get_summary counting every run that is not completed as failed
get_summary_rest_failed(lf) ==
    LET r == get_runs(lf)
        completed == WithStatus(r.ret, "completed")
    IN  IF r.raised # None THEN [raised |-> r.raised, ret |-> None]
        ELSE [raised |-> None,
              ret |-> Summary(r.ret, completed,
                              SubSeq(r.ret, 1, Len(r.ret) - Len(completed)))]

\* ExperimentLogger.get_summary: [raised, ret]
get_summary(lf) ==
    LET r == get_runs(lf)
    IN  IF r.raised # None THEN [raised |-> r.raised, ret |-> None]
        ELSE [raised |-> None,
              ret |-> Summary(r.ret, WithStatus(r.ret, "completed"),
                              WithStatus(r.ret, "failed"))]

\* ExperimentRun.__init__ and __enter__: the scope object after entering
scope_enter(id) == [run_id |-> id]

\* __exit__ ending the run as completed however the body left
scope_exit_args_completed(exc) == <<"completed", None>>

\* ExperimentRun.__exit__: the (status, error) it passes to end_run;
\* exc is None when the body completed, else the raised error's message
scope_exit_args(exc) ==
    IF exc # None THEN <<"failed", str(exc.val)>> ELSE <<"completed", None>>

----------------------------------------------------------------------------
(* The state machine *)

\* the last call: what it raised to its caller (None when it returned),
\* what it returned, and for __exit__ the error the body left with
NoCall == [op |-> "none", raised |-> None, ret |-> None, exc |-> None]
Call(op, o) == [op |-> op, raised |-> o.raised, ret |-> o.ret, exc |-> None]

\* a step that changes the tracker, the file, the scopes or the clock
Budget == ops < MaxOps
Spend == ops' = ops + 1

\* the writers have no run; no upload session, file or dataset exists
Trackers == {"t1", "t2"}
InitOther ==
    /\ trackers = [p \in Trackers |->
                     [current_run |-> NewLogger.current_run, run_id |-> NewLogger.run_id,
                      pc |-> "idle", buffer |-> <<>>]]
    /\ temp_dirs = <<>>
    /\ storage = <<>>
    /\ datasets = <<>>
    /\ upload_count = 0
    /\ uploaded = <<>>

Init ==
    /\ current_run = NewLogger.current_run
    /\ run_id = NewLogger.run_id
    /\ log_file \in {[exists |-> FALSE, text |-> <<>>], [exists |-> TRUE, text |-> <<>>]}
    /\ now = 0
    /\ uuid_count = 0
    /\ scopes = <<>>
    /\ last = NoCall
    /\ calls = <<>>
    /\ ended = <<>>
    /\ ops = 0
    /\ InitOther

\* the tracker's fields and the file after a call
Apply(o) ==
    /\ current_run' = o.current_run
    /\ run_id' = o.run_id
    /\ log_file' = o.log_file

\* the clock advances
Tick ==
    /\ Budget /\ Spend
    /\ now' = now + 1
    /\ UNCHANGED <<current_run, run_id, log_file, uuid_count, scopes, last, calls, ended>>
    /\ UNCHANGED other_vars

\* a log_* call: it is kept in the history of the run it was made on; with
\* no active run it changes nothing
Record(c) ==
    IF current_run = None THEN UNCHANGED <<calls, ops>>
    ELSE Budget /\ Spend /\ calls' = Append(calls, c)

StartRun(args) ==
    /\ Budget /\ Spend
    /\ LET o == start_run(current_run, run_id, log_file, args, uuid_count + 1, now)
       IN  Apply(o) /\ last' = Call("start_run", o)
    /\ uuid_count' = uuid_count + 1
    /\ calls' = <<>>
    /\ UNCHANGED <<now, scopes, ended>>
    /\ UNCHANGED other_vars

LogParams(params) ==
    /\ LET o == log_params(current_run, run_id, log_file, params)
       IN  /\ Apply(o) /\ last' = Call("log_params", o)
           /\ Record([op |-> "log_params", items |-> params, step |-> None,
                      raised |-> o.raised])
    /\ UNCHANGED <<now, uuid_count, scopes, ended>>
    /\ UNCHANGED other_vars

LogParam(key, value) ==
    /\ LET o == log_param(current_run, run_id, log_file, key, value)
       IN  /\ Apply(o) /\ last' = Call("log_param", o)
           /\ Record([op |-> "log_params", items |-> <<<<key, value>>>>, step |-> None,
                      raised |-> o.raised])
    /\ UNCHANGED <<now, uuid_count, scopes, ended>>
    /\ UNCHANGED other_vars

LogMetrics(metrics, step) ==
    /\ LET o == log_metrics(current_run, run_id, log_file, metrics, step, now)
       IN  /\ Apply(o) /\ last' = Call("log_metrics", o)
           /\ Record([op |-> "log_metrics", items |-> metrics, step |-> step,
                      raised |-> o.raised])
    /\ UNCHANGED <<now, uuid_count, scopes, ended>>
    /\ UNCHANGED other_vars

LogMetric(key, value, step) ==
    /\ LET o == log_metric(current_run, run_id, log_file, key, value, step, now)
       IN  /\ Apply(o) /\ last' = Call("log_metric", o)
           /\ Record([op |-> "log_metrics", items |-> <<<<key, value>>>>, step |-> step,
                      raised |-> o.raised])
    /\ UNCHANGED <<now, uuid_count, scopes, ended>>
    /\ UNCHANGED other_vars

LogArtifact(path, artifact_type) ==
    /\ LET o == log_artifact(current_run, run_id, log_file, path, artifact_type, now)
       IN  /\ Apply(o) /\ last' = Call("log_artifact", o)
           /\ Record([op |-> "log_artifact", items |-> <<<<path, Str(artifact_type)>>>>,
                      step |-> None, raised |-> o.raised])
    /\ UNCHANGED <<now, uuid_count, scopes, ended>>
    /\ UNCHANGED other_vars

\* the run dict an end_run call serializes: the active run with the end
\* fields set
Finalized(cr, status, error, t) ==
    LET r == DictSet(DictSet(DictSet(cr, "end_time", isoformat(t)),
                             "status", Str(status)), "error", error)
    IN  DictSet(r, "duration_seconds",
                Num(fromisoformat(r.val["end_time"]) - fromisoformat(r.val["start_time"])))

\* history of an end_run call: the dict it wrote, when it wrote one
Ended(o, status, error) ==
    IF current_run = None \/ o.raised # None THEN UNCHANGED <<calls, ended>>
    ELSE /\ ended' = Append(ended, Finalized(current_run, status, error, now))
         /\ calls' = <<>>

EndRun(status, error) ==
    /\ LET o == end_run(current_run, run_id, log_file, status, error, now)
       IN  Apply(o) /\ last' = Call("end_run", o) /\ Ended(o, status, error)
    /\ IF current_run = None THEN UNCHANGED ops ELSE Budget /\ Spend
    /\ UNCHANGED <<now, uuid_count, scopes>>
    /\ UNCHANGED other_vars

GetRuns ==
    /\ LET r == get_runs(log_file)
       IN  last' = [op |-> "get_runs", raised |-> r.raised,
                    ret |-> IF r.raised = None THEN List(r.ret) ELSE None, exc |-> None]
    /\ UNCHANGED <<current_run, run_id, log_file, now, uuid_count, scopes, calls, ended, ops>>
    /\ UNCHANGED other_vars

\* with ExperimentRun(logger, **args): entering the body
Enter(args) ==
    /\ Budget /\ Spend
    /\ Len(scopes) < MaxDepth
    /\ LET o == start_run(current_run, run_id, log_file, args, uuid_count + 1, now)
       IN  /\ Apply(o) /\ last' = Call("__enter__", o)
           /\ scopes' = Append(scopes, scope_enter(o.ret))
    /\ uuid_count' = uuid_count + 1
    /\ calls' = <<>>
    /\ UNCHANGED <<now, ended>>
    /\ UNCHANGED other_vars

\* leaving the body of the innermost scope: normally (exc = None) or by an
\* error; __exit__ returns False, so the error raised by the body, or the
\* one end_run raises, reaches the caller
Exit(exc) ==
    /\ scopes # <<>>
    /\ LET a == scope_exit_args(exc)
           o == end_run(current_run, run_id, log_file, a[1], a[2], now)
       IN  /\ Apply(o)
           /\ last' = [op |-> "__exit__", ret |-> None, exc |-> exc,
                        raised |-> IF o.raised # None THEN o.raised ELSE exc]
           /\ Ended(o, a[1], a[2])
    /\ Budget /\ Spend
    /\ scopes' = SubSeq(scopes, 1, Len(scopes) - 1)
    /\ UNCHANGED <<now, uuid_count>>
    /\ UNCHANGED other_vars

Next ==
    \/ Tick
    \/ \E args \in StartArgs : StartRun(args)
    \/ \E params \in ParamArgs : LogParams(params)
    \/ \E a \in ParamArg : LogParam(a[1], a[2])
    \/ \E metrics \in MetricArgs, step \in StepArgs : LogMetrics(metrics, step)
    \/ \E a \in MetricArg : LogMetric(a[1], a[2], a[3])
    \/ \E a \in ArtifactArgs : LogArtifact(a[1], a[2])
    \/ \E a \in EndArgs : EndRun(a[1], a[2])
    \/ GetRuns
    \/ \E args \in ScopeArgs : Enter(args)
    \/ \E exc \in {None} \cup {Exc("ValueError", m) : m \in BodyErrors} : Exit(exc)

Spec == Init /\ [][Next]_vars

\* ---------------------------------------------------------------------
\* The queries over logs of whole runs: each step is the usage of the
\* module docstring (start_run, log_metrics calls, end_run) or a query.

\* the log_metrics calls of one session: <<metrics, step>> in call order
SessionCalls ==
    { <<>>,
      << <<<<<<"snr", Num(1)>>>>, None>> >>,
      << <<<<<<"mse", Num(1)>>, <<"snr", Num(2)>>>>, None>> >>,
      << <<<<<<"flag", Bool(TRUE)>>, <<"gap", None>>, <<"note", Str("high")>>>>, None>> >>,
      << <<<<<<"snr", Num(1)>>>>, Num(0)>>, <<<<<<"snr", Num(3)>>>>, Num(0)>>,
         <<<<<<"mse", Num(1)>>, <<"snr", Num(2)>>>>, Num(0)>> >> }

\* end_run(status, error) of a session
SessionEnds == { <<"completed", None>>, <<"failed", Str("boom")>>, <<"cancelled", None>> }

\* get_best_run(metric, maximize)
QueryMetrics == {"snr", "mse"}

\* a record found in the log file at construction: a completed run whose
\* "snr" entry is a series without entries
OldRecord ==
    LET s == start_run(None, None, [exists |-> FALSE, text |-> <<>>],
                       CHOOSE args \in StartArgs : TRUE, Len(UUIDS), 0).current_run
    IN  Finalized(DictSet(s, "metrics", Dict([snr |-> EmptyList])), "completed", None, 0)

\* the log file at construction: missing, empty, or holding the old record
InitQuery ==
    /\ current_run = NewLogger.current_run
    /\ run_id = NewLogger.run_id
    /\ log_file \in {[exists |-> FALSE, text |-> <<>>], [exists |-> TRUE, text |-> <<>>],
                     AppendLine([exists |-> FALSE, text |-> <<>>], json_dumps(OldRecord))}
    /\ now = 0
    /\ uuid_count = 0
    /\ scopes = <<>>
    /\ last = NoCall
    /\ calls = <<>>
    /\ ended = <<>>
    /\ ops = 0
    /\ InitOther

\* the tracker after the log_metrics calls cs, made one after the other
RECURSIVE LogAll(_, _, _)
LogAll(o, cs, t) ==
    IF cs = <<>> THEN o
    ELSE LogAll(log_metrics(o.current_run, o.run_id, o.log_file, Head(cs)[1], Head(cs)[2], t),
                Tail(cs), t)

\* one usage session: start_run(), the log_metrics calls, end_run a second
\* later
LoggedRun(args, cs, e) ==
    /\ uuid_count < MaxLogged
    /\ LET s == start_run(current_run, run_id, log_file, args, uuid_count + 1, now)
           m == LogAll(s, cs, now)
           o == end_run(m.current_run, m.run_id, m.log_file, e[1], e[2], now + 1)
       IN  /\ Apply(o) /\ last' = Call("end_run", o)
           /\ ended' = Append(ended, Finalized(m.current_run, e[1], e[2], now + 1))
    /\ uuid_count' = uuid_count + 1
    /\ now' = now + 1
    /\ UNCHANGED <<scopes, calls, ops>>
    /\ UNCHANGED other_vars

\* the log_metrics calls of a run that is left active
OpenCalls == { << <<<<<<"mse", Num(1)>>, <<"snr", Num(3)>>>>, None>> >> }

\* start_run() and the log_metrics calls: the run stays active
OpenRun(args, cs) ==
    /\ uuid_count < MaxLogged
    /\ LET s == start_run(current_run, run_id, log_file, args, uuid_count + 1, now)
           m == LogAll(s, cs, now)
       IN  Apply(m) /\ last' = Call("log_metrics", m)
    /\ uuid_count' = uuid_count + 1
    /\ UNCHANGED <<now, scopes, calls, ended, ops>>
    /\ UNCHANGED other_vars

\* end_run(status, error) of a call that fails
FailedEnds == { <<"failed", Str("boom")>> }

\* end_run(status, error) on the active run while the log file cannot be
\* opened or written
EndRunFails(status, error, at) ==
    /\ current_run # None
    /\ LET o == end_run_fails(current_run, run_id, log_file, status, error, now, at)
       IN  Apply(o) /\ last' = Call("end_run", o)
    /\ UNCHANGED <<now, uuid_count, scopes, calls, ended, ops>>
    /\ UNCHANGED other_vars

\* get_best_run reading the active run as if it were the last record
GetBestRun_with_active(metric, maximize) ==
    /\ LET lf == IF current_run = None THEN log_file
                 ELSE AppendLine(log_file, json_dumps(current_run))
           r == get_best_run(lf, metric, maximize)
       IN  last' = [op |-> "get_best_run", raised |-> r.raised, ret |-> r.ret, exc |-> None,
                    metric |-> metric, maximize |-> maximize]
    /\ UNCHANGED <<current_run, run_id, log_file, now, uuid_count, scopes, calls, ended, ops>>
    /\ UNCHANGED other_vars

GetBestRun(metric, maximize) ==
    /\ LET r == get_best_run(log_file, metric, maximize)
       IN  last' = [op |-> "get_best_run", raised |-> r.raised, ret |-> r.ret, exc |-> None,
                    metric |-> metric, maximize |-> maximize]
    /\ UNCHANGED <<current_run, run_id, log_file, now, uuid_count, scopes, calls, ended, ops>>
    /\ UNCHANGED other_vars

GetSummary ==
    /\ LET r == get_summary(log_file)
       IN  last' = [op |-> "get_summary", raised |-> r.raised, ret |-> r.ret, exc |-> None]
    /\ UNCHANGED <<current_run, run_id, log_file, now, uuid_count, scopes, calls, ended, ops>>
    /\ UNCHANGED other_vars

NextQuery ==
    \/ \E args \in StartArgs, cs \in SessionCalls, e \in SessionEnds : LoggedRun(args, cs, e)
    \/ \E args \in StartArgs, cs \in OpenCalls : OpenRun(args, cs)
    \/ \E e \in FailedEnds, at \in {"open", "write"} : EndRunFails(e[1], e[2], at)
    \/ \E metric \in QueryMetrics, maximize \in BOOLEAN : GetBestRun(metric, maximize)
    \/ GetSummary
    \/ GetRuns

SpecQuery == InitQuery /\ [][NextQuery]_vars

----------------------------------------------------------------------------
(* Properties *)

\* the records get_runs reads from the log, and the last of them
Runs == get_runs(log_file).ret
LastRun == Runs[Len(Runs)]
Field(run, k) == run.val[k]

\* the step is a call of op (the clock does not move during a call)
Called(op) == last'.op = op /\ now' = now
\* the step wrote to the log file
Wrote == log_file' # log_file

\* the call mentions key k, and the value it gives it
Mentions(c, k) == \E i \in DOMAIN c.items : c.items[i][1] = k
ValueIn(c, k) == c.items[CHOOSE i \in DOMAIN c.items : c.items[i][1] = k][2]
\* the calls of the history cs that satisfy Test, in call order
IsParams(c) == c.op = "log_params"
IsScalar(c) == c.op = "log_metrics" /\ c.step = None
IsSeries(c) == c.op = "log_metrics" /\ c.step # None /\ c.raised = None
\* the last call of cs that mentions k
LastMention(cs, k) ==
    cs[CHOOSE i \in DOMAIN cs :
         Mentions(cs[i], k) /\ \A j \in DOMAIN cs : j > i => ~Mentions(cs[j], k)]
\* the keys the calls of cs mention
KeysOf(cs) == UNION { {cs[i].items[j][1] : j \in DOMAIN cs[i].items} : i \in DOMAIN cs }

\* C1: start_run on a tracker that holds an active run fails with an
\* invalid-state error and leaves the active run unchanged.
C1_StartWhileActiveFails ==
    [][(Called("start_run") /\ current_run # None)
        => (last'.raised # None /\ current_run' = current_run /\ run_id' = run_id)]_vars

\* C2: the log holds exactly one record for each run an end_run call has
\* ended, in the order they ended, and none for the active run: nothing
\* but the end_run that ends a run writes its record.
C2_PersistedExactlyOnce ==
    /\ get_runs(log_file).raised = None
    /\ Len(Runs) = Len(ended)
    /\ \A i \in DOMAIN Runs : Field(Runs[i], "run_id") = Field(ended[i], "run_id")
    /\ \A i, j \in DOMAIN Runs : i # j => Field(Runs[i], "run_id") # Field(Runs[j], "run_id")
    /\ current_run # None =>
         \A i \in DOMAIN Runs : Field(Runs[i], "run_id") # Field(current_run, "run_id")

\* C2 witness: one run is in the log and a second one is active and has
\* been logged to.
C2_Witness ==
    /\ Len(Runs) = 1 /\ current_run # None /\ calls # <<>>
    /\ Field(current_run, "run_id") # Field(Runs[1], "run_id")

\* a is a prefix of b
IsPrefix(a, b) == Len(a) <= Len(b) /\ SubSeq(b, 1, Len(a)) = a

\* C3: the log is append-only: in every step the text of the file, and the
\* records read from it, before the step are a prefix of those after it.
C3_AppendOnly ==
    [][Wrote =>
        /\ IsPrefix(log_file.text, log_file'.text)
        /\ IsPrefix(Runs, Runs')
        /\ log_file.exists => log_file'.exists]_vars

\* C3 witness: the log has grown twice.
C3_Witness == Len(Runs) = 2 /\ Len(log_file.text) = 4

LogOps == {"log_params", "log_param", "log_metrics", "log_metric", "log_artifact"}

\* C4: a log_* call made while no run is active raises the no-active-run
\* error and changes neither the tracker nor the log file.
C4_LogWithoutRunFails ==
    [][\A op \in LogOps :
        (Called(op) /\ current_run = None)
          => (last'.raised = NoActiveRun /\ UNCHANGED <<current_run, run_id, log_file>>)]_vars

\* C4 witness: a log_metrics call was refused after a run had ended and
\* before the next one started.
C4_Witness ==
    /\ last.op = "log_metrics" /\ last.raised = NoActiveRun
    /\ current_run = None /\ Len(ended) = 1

\* C5: end_run with no active run raises the no-active-run error and
\* appends nothing; an end_run that ends a run appends one record and
\* leaves no run active, so that an end_run right after it fails.
C5_EndWithoutRunFails ==
    [][/\ (Called("end_run") /\ current_run = None)
            => (last'.raised = NoRunToEnd /\ UNCHANGED <<current_run, run_id, log_file>>)
       /\ (Called("end_run") /\ current_run # None)
            => (last'.raised = None /\ current_run' = None
                /\ Len(Runs') = Len(Runs) + 1)]_vars

\* C5 witness: start_run, end_run, end_run: one record, the second call
\* failed.
C5_Witness ==
    /\ last.op = "end_run" /\ last.raised = NoRunToEnd
    /\ Len(Runs) = 1 /\ uuid_count = 1

\* C6: the parameters of a record are the last-write-wins merge of the
\* log_params / log_param calls made on its run: the keys logged, each with
\* the value of the latest call that mentions it.
C6_ParamsLastWriteWins ==
    [][Wrote =>
        LET cs == SelectSeq(calls, IsParams)
            params == Field(LastRun', "parameters")
        IN  /\ params.kind = "dict"
            /\ DOMAIN params.val = KeysOf(cs)
            /\ \A k \in KeysOf(cs) : params.val[k] = ValueIn(LastMention(cs, k), k)]_vars

\* C6 witness: a record whose lr was logged as 1 with epochs and then
\* overwritten with 2.
C6_Witness ==
    /\ Len(Runs) >= 1
    /\ Field(LastRun, "parameters") = Dict([lr |-> Num(2), epochs |-> Num(1)])

\* C7: for each metric key logged without a step on a run, the record holds
\* the value of the last step-less log_metrics call for that key.
C7_ScalarIsLastLogged ==
    [][Wrote =>
        LET cs == SelectSeq(calls, IsScalar)
            metrics == Field(LastRun', "metrics")
        IN  \A k \in KeysOf(cs) :
              /\ k \in DOMAIN metrics.val
              /\ metrics.val[k] = ValueIn(LastMention(cs, k), k)]_vars

\* C7 witness: a record whose snr was logged as 2 (with mse) and then
\* overwritten with 1.
C7_Witness ==
    /\ Len(Runs) >= 1
    /\ Field(LastRun, "metrics") = Dict([snr |-> Num(1), mse |-> Num(1)])

\* C8: for each metric key logged with a step on a run, the record holds a
\* series with one entry per such call (that returned), in call order, each
\* with the step and value of its call.
C8_SeriesIsCallsInOrder ==
    [][Wrote =>
        LET cs == SelectSeq(calls, IsSeries)
            metrics == Field(LastRun', "metrics")
        IN  \A k \in KeysOf(cs) :
              LET ck == SelectSeq(cs, LAMBDA c : Mentions(c, k))
              IN  /\ k \in DOMAIN metrics.val
                  /\ metrics.val[k].kind = "list"
                  /\ Len(metrics.val[k].val) = Len(ck)
                  /\ \A i \in DOMAIN ck :
                       /\ metrics.val[k].val[i].val["step"] = ck[i].step
                       /\ metrics.val[k].val[i].val["value"] = ValueIn(ck[i], k)]_vars

\* C9: get_runs returns the dicts the successful end_run calls finalized,
\* oldest first, and the empty list when the log file does not exist.
C9_GetRunsRoundTrip ==
    /\ get_runs(log_file) = [raised |-> None, ret |-> ended]
    /\ ~log_file.exists => Runs = <<>>
    /\ last.op = "get_runs" => (last.raised = None /\ last.ret = List(ended))

\* C9 witness: get_runs called after two runs were ended.
C9_Witness == last.op = "get_runs" /\ Len(ended) = 2 /\ Len(last.ret.val) = 2

\* C10: the record __exit__ writes has status completed and no error when
\* the body completed, and status failed with the error's message when the
\* body raised.
C10_ScopeStatus ==
    [][(Called("__exit__") /\ Len(scopes') < Len(scopes) /\ Wrote) =>
        LET r == LastRun'
        IN  IF last'.exc = None
            THEN Field(r, "status") = Str("completed") /\ Field(r, "error") = None
            ELSE Field(r, "status") = Str("failed")
                 /\ Field(r, "error") = Str(last'.exc.val)]_vars

\* C10 witness: a scope left by an error, its run written as failed.
C10_Witness ==
    /\ last.op = "__exit__" /\ last.exc # None /\ Len(Runs) >= 1
    /\ Field(LastRun, "status") = Str("failed")
    /\ Field(LastRun, "run_id") = Str(uuid4(uuid_count))

\* the step left the innermost scope
Exited == Called("__exit__") /\ Len(scopes') < Len(scopes)

\* C11: once a scope has exited, the log holds exactly one record of the
\* run the scope started, whatever the body did with the tracker.
C11_ScopeRunPersistedOnce ==
    [][Exited =>
        LET id == scopes[Len(scopes)].run_id
        IN  Cardinality({i \in DOMAIN Runs' : Field(Runs'[i], "run_id") = id}) = 1]_vars

\* C12: when the body of a scope raises, the caller of the scope observes
\* that same error.
C12_BodyErrorReachesCaller ==
    [][(Exited /\ last'.exc # None) => last'.raised = last'.exc]_vars

\* the step is a start_run, called directly or by __enter__
Started == (Called("start_run") \/ Called("__enter__")) /\ uuid_count' # uuid_count
IsArtifact(c) == c.op = "log_artifact"
IsMetrics(c) == c.op = "log_metrics"

\* C17: right after start_run the active run is running, has a run_id no
\* other run has, empty parameters, metrics and artifacts, and no end_time
\* or error; a record holds only what was logged since its run started.
C17_FreshRun ==
    [][/\ Started =>
            /\ current_run'.kind = "dict"
            /\ Field(current_run', "status") = Str("running")
            /\ Field(current_run', "run_id") = last'.ret /\ run_id' = last'.ret
            /\ \A i \in DOMAIN Runs : Field(Runs[i], "run_id") # last'.ret
            /\ current_run # None => Field(current_run, "run_id") # last'.ret
            /\ Field(current_run', "parameters") = EmptyDict
            /\ Field(current_run', "metrics") = EmptyDict
            /\ Field(current_run', "artifacts") = EmptyList
            /\ Field(current_run', "end_time") = None
            /\ Field(current_run', "error") = None
       /\ Wrote =>
            /\ DOMAIN Field(LastRun', "parameters").val = KeysOf(SelectSeq(calls, IsParams))
            /\ DOMAIN Field(LastRun', "metrics").val \subseteq KeysOf(SelectSeq(calls, IsMetrics))
            /\ Len(Field(LastRun', "artifacts").val) = Len(SelectSeq(calls, IsArtifact))]_vars

\* C17 witness: a run with parameters is in the log and a second run has
\* just been started.
C17_Witness ==
    /\ last.op = "start_run" /\ current_run # None /\ Len(Runs) = 1
    /\ Field(Runs[1], "parameters") # EmptyDict
    /\ Field(current_run, "parameters") = EmptyDict

\* C18: in every record duration_seconds is end_time minus start_time, in
\* seconds.
C18_Duration ==
    \A i \in DOMAIN Runs :
        /\ Field(Runs[i], "duration_seconds").kind = "num"
        /\ Field(Runs[i], "duration_seconds").val
             = fromisoformat(Field(Runs[i], "end_time"))
               - fromisoformat(Field(Runs[i], "start_time"))

\* C18 witness: a record of a run that ended one second after it started.
C18_Witness ==
    /\ Len(Runs) >= 1
    /\ Field(Runs[1], "duration_seconds") = Num(1)
    /\ Field(Runs[1], "start_time") # Field(Runs[1], "end_time")

\* the call c switches the representation of a metric key the run m holds
Switches(m, c) ==
    \E k \in KeysOf(<<c>>) :
        /\ k \in DOMAIN m.val
        /\ (c.step = None) # (m.val[k].kind # "list")

\* C19: a log_metrics call that gives a key in the other mode than the one
\* the run holds for it is rejected and leaves the run unchanged.
C19_ModeSwitchRejected ==
    [][((Called("log_metrics") \/ Called("log_metric"))
          /\ Len(calls') = Len(calls) + 1
          /\ Switches(Field(current_run, "metrics"), calls'[Len(calls')]))
        => (last'.raised # None /\ current_run' = current_run)]_vars

\* ---------------------------------------------------------------------
\* run_pipeline_from_config with experiment logging enabled
\* (src/tools/pipeline_runner.py): each step is one invocation or a
\* get_runs on the log it wrote to.

\* the configuration: the "model" section is a mapping, or null when the
\* section is there without entries (load_config checks only its presence)
Configs ==
    { [name |-> Str("unet"), path |-> Str("data.sgy"), config_path |-> "cfg.yaml",
       model |-> [kind |-> "dict", items |-> <<<<"lr", Num(1)>>>>]],
      [name |-> Str("unet"), path |-> Str("data.sgy"), config_path |-> "cfg.yaml",
       model |-> None] }

\* what run_evaluation returns: {} without a reference, else the metrics
Evaluations == { <<>>, <<<<"snr", Num(1)>>>>, <<<<"mse", Num(1)>>, <<"snr", Num(2)>>>> }

\* the exception a step inside the try block raises, None when all succeed
StepErrors == { None, Exc("ValueError", "boom"), Exc("FileNotFoundError", "data.sgy") }

NotIterable == Exc("TypeError", "'NoneType' object is not iterable")

\* the except clause: end_run(status="failed", error=str(e)), then raise
PipelineExcept(o, e, t) ==
    LET f == end_run(o.current_run, o.run_id, o.log_file, "failed", str(e.val), t)
    IN  IF f.raised # None THEN f
        ELSE Outcome(f.current_run, f.run_id, f.log_file, e, None)

\* run_pipeline_from_config(config_path, experiment_id): the logger is
\* created by the call; ret is the metrics dictionary
run_pipeline_from_config(lf, config, metrics, step_error, u, t) ==
    LET logger == NewLogger
        s == start_run(logger.current_run, logger.run_id, lf,
                       [pipeline |-> config.name, dataset |-> config.path,
                        config_path |-> str(config.config_path), tags |-> None], u, t)
        p == log_params(s.current_run, s.run_id, s.log_file, config.model.items)
        m == log_metrics(p.current_run, p.run_id, p.log_file, metrics, None, t + 1)
        a == log_artifact(m.current_run, m.run_id, m.log_file, "out", "results_directory", t + 1)
        c == end_run(a.current_run, a.run_id, a.log_file, "completed", None, t + 1)
    IN  IF config.model = None
        THEN Outcome(s.current_run, s.run_id, s.log_file, NotIterable, None)
        ELSE IF p.raised # None THEN p
        ELSE IF step_error # None THEN PipelineExcept(p, step_error, t + 1)
        ELSE IF m.raised # None THEN PipelineExcept(m, m.raised, t + 1)
        ELSE IF a.raised # None THEN PipelineExcept(a, a.raised, t + 1)
        ELSE IF c.raised # None THEN PipelineExcept(c, c.raised, t + 1)
        ELSE Outcome(c.current_run, c.run_id, c.log_file, None, DictOf(metrics))

\* one invocation; current_run and run_id are the fields of the logger it
\* created, as the call left them
RunPipelineFromConfig(config, metrics, step_error) ==
    /\ uuid_count < MaxLogged
    /\ LET o == run_pipeline_from_config(log_file, config, metrics, step_error,
                                         uuid_count + 1, now)
       IN  /\ Apply(o)
           /\ last' = [op |-> "run_pipeline_from_config", raised |-> o.raised, ret |-> o.ret,
                        exc |-> step_error, metrics |-> DictOf(metrics)]
           /\ ended' = IF o.log_file = log_file THEN ended
                        ELSE Append(ended, get_runs(o.log_file).ret[Len(get_runs(o.log_file).ret)])
    /\ uuid_count' = uuid_count + 1
    /\ now' = now + 1
    /\ UNCHANGED <<scopes, calls, ops>>
    /\ UNCHANGED other_vars

NextPipeline ==
    \/ \E config \in Configs, metrics \in Evaluations, step_error \in StepErrors :
          RunPipelineFromConfig(config, metrics, step_error)
    \/ GetRuns

SpecPipeline == Init /\ [][NextPipeline]_vars

\* ---------------------------------------------------------------------
\* Two ExperimentLogger objects on the same log file, one per thread or
\* process. start_run touches only the object; end_run is taken in the
\* steps in which the other writer can see or change the file: the lines
\* up to open(), the write() calls by which the buffered line reaches the
\* file when the with block closes it, and the reset of the fields.

\* the fields of tracker p after a call
Tracked(p, cr, rid, pc, buffer) ==
    [trackers EXCEPT ![p] = [current_run |-> cr, run_id |-> rid, pc |-> pc, buffer |-> buffer]]

StartRunOf(p, args) ==
    /\ trackers[p].pc = "idle"
    /\ uuid_count < MaxLogged
    /\ LET o == start_run(trackers[p].current_run, trackers[p].run_id, log_file, args,
                          uuid_count + 1, now)
       IN  /\ trackers' = Tracked(p, o.current_run, o.run_id, "idle", <<>>)
           /\ last' = Call("start_run", o)
    /\ uuid_count' = uuid_count + 1
    /\ UNCHANGED <<current_run, run_id, log_file, now, scopes, calls, ended, ops>>
    /\ UNCHANGED <<temp_dirs, storage, datasets, upload_count, uploaded>>

\* end_run up to f.write: the end fields are set, the file is opened for
\* appending (and created when missing), the line is in the buffer
EndRunOpen(p, status, error) ==
    /\ trackers[p].pc = "idle"
    /\ IF trackers[p].current_run = None
       THEN /\ last' = [op |-> "end_run", raised |-> NoRunToEnd, ret |-> None, exc |-> None]
            /\ UNCHANGED <<trackers, log_file, ended>>
       ELSE LET r == Finalized(trackers[p].current_run, status, error, now)
            IN  /\ trackers' = Tracked(p, r, trackers[p].run_id, "writing",
                                       <<json_dumps(r), NL>>)
                /\ log_file' = [exists |-> TRUE, text |-> log_file.text]
                /\ ended' = Append(ended, r)
                /\ last' = [op |-> "open", raised |-> None, ret |-> None, exc |-> None]
    /\ UNCHANGED <<current_run, run_id, now, uuid_count, scopes, calls, ops>>
    /\ UNCHANGED <<temp_dirs, storage, datasets, upload_count, uploaded>>

\* one write() on the descriptor opened with O_APPEND: the first n tokens
\* of what is left of the buffer go to the end of the file; write() may
\* take less than it was given, and the flush then calls it again
EndRunWrite(p, n) ==
    /\ trackers[p].pc = "writing"
    /\ n \in 1..Len(trackers[p].buffer)
    /\ LET buffer == trackers[p].buffer
           left == SubSeq(buffer, n + 1, Len(buffer))
       IN  /\ log_file' = [exists |-> TRUE, text |-> log_file.text \o SubSeq(buffer, 1, n)]
           /\ trackers' = Tracked(p, trackers[p].current_run, trackers[p].run_id,
                                  IF left = <<>> THEN "closed" ELSE "writing", left)
    /\ last' = [op |-> "write", raised |-> None, ret |-> Num(n), exc |-> None]
    /\ UNCHANGED <<current_run, run_id, now, uuid_count, scopes, calls, ended, ops>>
    /\ UNCHANGED <<temp_dirs, storage, datasets, upload_count, uploaded>>

\* end_run after the with block: the fields are reset
EndRunReset(p) ==
    /\ trackers[p].pc = "closed"
    /\ trackers' = Tracked(p, None, None, "idle", <<>>)
    /\ last' = [op |-> "end_run", raised |-> None, ret |-> None, exc |-> None]
    /\ UNCHANGED <<current_run, run_id, log_file, now, uuid_count, scopes, calls, ended, ops>>
    /\ UNCHANGED <<temp_dirs, storage, datasets, upload_count, uploaded>>

NextConcurrent ==
    \/ \E p \in Trackers, args \in StartArgs : StartRunOf(p, args)
    \/ \E p \in Trackers, e \in SessionEnds : EndRunOpen(p, e[1], e[2])
    \/ \E p \in Trackers, n \in 1..2 : EndRunWrite(p, n)
    \/ \E p \in Trackers : EndRunReset(p)

SpecConcurrent == Init /\ [][NextConcurrent]_vars

\* ---------------------------------------------------------------------
\* The chunked upload endpoints of src/promethium/api/routers/datasets.py.
\* A handler runs to its end once called: upload_chunk has no await, and
\* finalize_upload awaits only after the merge and the cleanup.
\* File names and bytes are sequences of characters.

\* f with f[k] = v, and f without k
Put(f, k, v) == [x \in (DOMAIN f) \cup {k} |-> IF x = k THEN v ELSE f[x]]
Remove(f, k) == [x \in (DOMAIN f) \ {k} |-> f[x]]

\* str(uuid4()): the n-th value drawn
UPLOAD_IDS == <<"7d1e4c0a", "c02b96f3", "19aa03de">>

\* str(i) and int(s) on ints, str.isdigit()
Digits == <<"0", "1", "2", "3", "4", "5", "6", "7", "8", "9">>
RECURSIVE DigitsOf(_)
DigitsOf(n) ==
    IF n < 10 THEN <<Digits[n + 1]>> ELSE Append(DigitsOf(n \div 10), Digits[(n % 10) + 1])
str_int(i) == IF i < 0 THEN <<"-">> \o DigitsOf(-i) ELSE DigitsOf(i)
isdigit(f) == f # <<>> /\ \A k \in DOMAIN f : \E d \in DOMAIN Digits : Digits[d] = f[k]
RECURSIVE int_str(_)
int_str(f) ==
    IF f = <<>> THEN 0
    ELSE 10 * int_str(SubSeq(f, 1, Len(f) - 1))
         + ((CHOOSE d \in DOMAIN Digits : Digits[d] = f[Len(f)]) - 1)

\* sorted(ints)
RECURSIVE sorted(_)
sorted(ints) ==
    IF ints = {} THEN <<>>
    ELSE LET least == CHOOSE i \in ints : \A j \in ints : i <= j
         IN  <<least>> \o sorted(ints \ {least})

\* str.upper() and str.lower() on the formats and extensions in use
upper(x) == CASE x = "segy" -> "SEGY" [] x = ".sgy" -> ".SGY" [] OTHER -> x
lower(x) == CASE x = "SEGY" -> "segy" [] x = ".SGY" -> ".sgy" [] OTHER -> x

HTTPException(status_code) == [kind |-> "exc", type |-> "HTTPException", val |-> status_code]

\* upload_chunk(upload_id, chunk_index, file) and UploadFinalizeRequest
ChunkIndexes == {-1, 2, 10}
ChunkBytes == {<<"A">>, <<"B">>}
FinalizeRequests ==
    { [name |-> <<"line1">>, format |-> "segy"],
      [name |-> <<"line1", ".SGY">>, format |-> "SEGY"] }
UploadIds == {UPLOAD_IDS[n] : n \in 1..MaxUploads}

\* the file name finalize_upload writes to
Filename(upload_id, request) ==
    LET filename == <<upload_id, "_">> \o request.name
    IN  IF /\ upper(request.format) = "SEGY"
           /\ lower(filename[Len(filename)]) \notin {".sgy", ".segy"}
        THEN Append(filename, ".sgy")
        ELSE filename

\* the loop of finalize_upload: the chunk files copied one after the other
RECURSIVE Merge(_, _)
Merge(dir, chunks) ==
    IF chunks = <<>> THEN <<>>
    ELSE dir[str_int(Head(chunks))] \o Merge(dir, Tail(chunks))

InitUpload ==
    /\ upload_count < MaxUploads
    /\ LET upload_id == UPLOAD_IDS[upload_count + 1]
       IN  /\ temp_dirs' = IF upload_id \in DOMAIN temp_dirs THEN temp_dirs
                            ELSE Put(temp_dirs, upload_id, <<>>)
           /\ uploaded' = Put(uploaded, upload_id, <<>>)
           /\ last' = [op |-> "init_upload", raised |-> None, ret |-> Str(upload_id),
                        exc |-> None, upload_id |-> upload_id]
    /\ upload_count' = upload_count + 1
    /\ UNCHANGED <<storage, datasets, trackers>>
    /\ UNCHANGED <<current_run, run_id, log_file, now, uuid_count, scopes, calls, ended, ops>>

UploadChunk(upload_id, chunk_index, bytes) ==
    /\ IF upload_id \notin DOMAIN temp_dirs
       THEN /\ last' = [op |-> "upload_chunk", raised |-> HTTPException(404), ret |-> None,
                         exc |-> None, upload_id |-> upload_id]
            /\ UNCHANGED <<temp_dirs, uploaded>>
       ELSE /\ temp_dirs' = Put(temp_dirs, upload_id,
                                Put(temp_dirs[upload_id], str_int(chunk_index), bytes))
            /\ uploaded' = Put(uploaded, upload_id, Put(uploaded[upload_id], chunk_index, bytes))
            /\ last' = [op |-> "upload_chunk", raised |-> None,
                         ret |-> Dict([status |-> Str("success"), chunk_index |-> Num(chunk_index)]),
                         exc |-> None, upload_id |-> upload_id]
    /\ UNCHANGED <<storage, datasets, upload_count, trackers>>
    /\ UNCHANGED <<current_run, run_id, log_file, now, uuid_count, scopes, calls, ended, ops>>

FinalizeUpload(request_upload_id, request) ==
    /\ IF request_upload_id \notin DOMAIN temp_dirs
       THEN /\ last' = [op |-> "finalize_upload", raised |-> HTTPException(404), ret |-> None,
                         exc |-> None, upload_id |-> request_upload_id]
            /\ UNCHANGED <<temp_dirs, storage, datasets>>
       ELSE LET dir == temp_dirs[request_upload_id]
                final_path == Filename(request_upload_id, request)
                chunks == sorted({int_str(f) : f \in {g \in DOMAIN dir : isdigit(g)}})
                merged == Merge(dir, chunks)
                new_dataset == [name |-> request.name, format |-> request.format,
                                file_path |-> final_path, size_bytes |-> Len(merged),
                                owner_id |-> "user"]
            IN  IF chunks = <<>>
                THEN /\ last' = [op |-> "finalize_upload", raised |-> HTTPException(400),
                                  ret |-> None, exc |-> None, upload_id |-> request_upload_id]
                     /\ UNCHANGED <<temp_dirs, storage, datasets>>
                ELSE /\ storage' = Put(storage, final_path, merged)
                     /\ temp_dirs' = Remove(temp_dirs, request_upload_id)
                     /\ datasets' = Append(datasets, new_dataset)
                     /\ last' = [op |-> "finalize_upload", raised |-> None, ret |-> new_dataset,
                                  exc |-> None, upload_id |-> request_upload_id]
    /\ UNCHANGED <<upload_count, uploaded, trackers>>
    /\ UNCHANGED <<current_run, run_id, log_file, now, uuid_count, scopes, calls, ended, ops>>

NextUpload ==
    \/ InitUpload
    \/ \E upload_id \in UploadIds, chunk_index \in ChunkIndexes, bytes \in ChunkBytes :
          UploadChunk(upload_id, chunk_index, bytes)
    \/ \E upload_id \in UploadIds, request \in FinalizeRequests :
          FinalizeUpload(upload_id, request)

SpecUpload == Init /\ [][NextUpload]_vars

\* ---------------------------------------------------------------------
\* The queries

BestOf == last.op = "get_best_run" /\ last.raised = None
Metrics(run) == Field(run, "metrics")
HasMetric(run, metric) == metric \in DOMAIN Metrics(run).val
HasScalar(run, metric) == HasMetric(run, metric) /\ Metrics(run).val[metric].kind = "num"

\* C13: when every run of the log holds a plain number for the metric,
\* get_best_run returns a run of the log whose number is the largest of
\* all when maximizing and the smallest of all when minimizing
C13_BestIsExtreme ==
    (BestOf /\ Runs # <<>> /\ \A i \in DOMAIN Runs : HasScalar(Runs[i], last.metric))
    => /\ \E i \in DOMAIN Runs : Runs[i] = last.ret
       /\ \A i \in DOMAIN Runs :
            IF last.maximize
            THEN Metrics(last.ret).val[last.metric].val >= Metrics(Runs[i]).val[last.metric].val
            ELSE Metrics(last.ret).val[last.metric].val <= Metrics(Runs[i]).val[last.metric].val

C13_Witness ==
    /\ BestOf /\ last.maximize /\ last.metric = "snr" /\ Len(Runs) = 2
    /\ HasScalar(Runs[1], "snr") /\ HasScalar(Runs[2], "snr")
    /\ Metrics(Runs[1]).val["snr"] = Num(1) /\ Metrics(Runs[2]).val["snr"] = Num(2)
    /\ last.ret = Runs[2]

\* C14: get_best_run returns none when the log is missing or empty, and
\* also when no run of the log has the metric
C14_NoneWithoutMetric ==
    (BestOf /\ \A i \in DOMAIN Runs : ~HasMetric(Runs[i], last.metric))
    => last.ret = None

\* C15: the metric_summary of get_summary is the statistics of the plain
\* numbers held by the completed runs alone: failed and cancelled runs
\* contribute to no entry (stated on the keys "snr" and "mse", whose
\* values are numbers or series)
SummaryOf == last.op = "get_summary" /\ last.raised = None
CompletedWith(key) ==
    {i \in DOMAIN Runs : Field(Runs[i], "status") = Str("completed") /\ HasScalar(Runs[i], key)}
RECURSIVE Total(_, _)
Total(I, key) ==
    IF I = {} THEN 0
    ELSE LET i == CHOOSE j \in I : TRUE
         IN  Metrics(Runs[i]).val[key].val + Total(I \ {i}, key)
C15_SummaryFromCompleted ==
    (SummaryOf /\ Runs # <<>>)
    => LET ms == last.ret.val["metric_summary"].val
       IN  /\ DOMAIN ms \cap QueryMetrics = {key \in QueryMetrics : CompletedWith(key) # {}}
           /\ \A key \in DOMAIN ms \cap QueryMetrics :
                LET I == CompletedWith(key)
                    v(i) == Metrics(Runs[i]).val[key].val
                    e == ms[key].val
                IN  /\ e["count"] = Num(Cardinality(I))
                    /\ \E i \in I : e["max"] = Num(v(i)) /\ \A j \in I : v(j) <= v(i)
                    /\ \E i \in I : e["min"] = Num(v(i)) /\ \A j \in I : v(j) >= v(i)
                    /\ e["mean"].num * Cardinality(I) = Total(I, key) * e["mean"].den

C15_Witness ==
    /\ SummaryOf /\ Len(Runs) = 2
    /\ Field(Runs[1], "status") = Str("completed") /\ HasScalar(Runs[1], "snr")
    /\ Metrics(Runs[1]).val["snr"] = Num(1)
    /\ Field(Runs[2], "status") = Str("failed") /\ HasScalar(Runs[2], "snr")
    /\ Metrics(Runs[2]).val["snr"] = Num(2)
    /\ last.ret.val["metric_summary"].val["snr"].val["max"] = Num(1)
    /\ last.ret.val["metric_summary"].val["snr"].val["count"] = Num(1)

\* C16: get_summary reports total_runs as the number of records of the
\* log, completed and failed as the numbers of records with those
\* statuses, so completed + failed <= total_runs; for a missing or empty
\* log all three are 0 and there is no metric summary
StatusCount(status) ==
    Cardinality({i \in DOMAIN Runs : Field(Runs[i], "status") = Str(status)})
C16_SummaryCounts ==
    SummaryOf
    => LET d == last.ret.val
       IN  /\ d["total_runs"] = Num(Len(Runs))
           /\ d["completed"] = Num(StatusCount("completed"))
           /\ d["failed"] = Num(StatusCount("failed"))
           /\ d["completed"].val + d["failed"].val <= d["total_runs"].val
           /\ Runs = <<>> => /\ d["total_runs"] = Num(0) /\ d["completed"] = Num(0)
                             /\ d["failed"] = Num(0)
                             /\ "metric_summary" \notin DOMAIN d

C16_Witness ==
    /\ SummaryOf /\ Len(Runs) = 2
    /\ Field(Runs[1], "status") = Str("cancelled")
    /\ Field(Runs[2], "status") = Str("completed")
    /\ last.ret.val["total_runs"] = Num(2)
    /\ last.ret.val["completed"] = Num(1)
    /\ last.ret.val["failed"] = Num(0)

\* C20: when at least one run of the log has a value for the metric,
\* get_best_run never returns a run that lacks it, maximizing or minimizing
C20_BestHasMetric ==
    (BestOf /\ \E i \in DOMAIN Runs : HasMetric(Runs[i], last.metric))
    => (last.ret # None /\ HasMetric(last.ret, last.metric))

C20_Witness ==
    /\ BestOf /\ ~last.maximize /\ last.metric = "mse" /\ Len(Runs) = 2
    /\ ~HasMetric(Runs[1], "mse") /\ HasMetric(Runs[2], "mse")
    /\ last.ret = Runs[2]

\* the run holds a value for the metric: a plain number or a series with
\* at least one entry
Present(run, metric) ==
    /\ HasMetric(run, metric)
    /\ \/ Metrics(run).val[metric].kind = "num"
       \/ Metrics(run).val[metric].kind = "list" /\ Metrics(run).val[metric].val # <<>>
\* that value: the number, or the value of the last entry of the series
LastValue(run, metric) ==
    LET m == Metrics(run).val[metric]
    IN  IF m.kind = "list" THEN m.val[Len(m.val)].val["value"].val ELSE m.val
Beats(a, b, maximize) == IF maximize THEN a > b ELSE a < b

\* C21: when several runs share the extremal value of the metric,
\* get_best_run returns the first of them in file order: no earlier run of
\* the log holds a value as good as the returned run's
C21_TieFirstInFile ==
    (BestOf /\ \E i \in DOMAIN Runs : Present(Runs[i], last.metric))
    => \E i \in DOMAIN Runs :
          /\ last.ret = Runs[i]
          /\ Present(Runs[i], last.metric)
          /\ \A j \in DOMAIN Runs :
                Present(Runs[j], last.metric)
                => /\ ~Beats(LastValue(Runs[j], last.metric),
                             LastValue(Runs[i], last.metric), last.maximize)
                   /\ (LastValue(Runs[j], last.metric) = LastValue(Runs[i], last.metric)) => i <= j

C21_Witness ==
    /\ BestOf /\ ~last.maximize /\ last.metric = "mse" /\ Len(Runs) = 2
    /\ HasScalar(Runs[1], "mse") /\ HasScalar(Runs[2], "mse")
    /\ Metrics(Runs[1]).val["mse"] = Metrics(Runs[2]).val["mse"]
    /\ last.ret = Runs[1]

\* C22: a run whose metric is a time series is compared by the value of
\* the last entry of the series, and a run whose series is empty is never
\* preferred to a run holding a value
C22_SeriesByLastEntry ==
    (BestOf /\ \E i \in DOMAIN Runs : Present(Runs[i], last.metric))
    => /\ last.ret # None /\ Present(last.ret, last.metric)
       /\ \A j \in DOMAIN Runs :
            Present(Runs[j], last.metric)
            => ~Beats(LastValue(Runs[j], last.metric),
                      LastValue(last.ret, last.metric), last.maximize)

C22_Witness ==
    /\ BestOf /\ last.maximize /\ last.metric = "snr" /\ Len(Runs) = 3
    /\ Metrics(Runs[1]).val["snr"] = EmptyList
    /\ HasScalar(Runs[2], "snr") /\ Metrics(Runs[2]).val["snr"] = Num(1)
    /\ HasMetric(Runs[3], "snr") /\ Metrics(Runs[3]).val["snr"].kind = "list"
    /\ Len(Metrics(Runs[3]).val["snr"].val) = 3
    /\ LastValue(Runs[3], "snr") = 2
    /\ last.ret = Runs[3]

\* ---------------------------------------------------------------------
\* The statuses and errors of the records

\* C24: every record of the log has status completed, failed or
\* cancelled, whatever status end_run was called with
C24_RecordStatus ==
    \A i \in DOMAIN Runs :
        Field(Runs[i], "status") \in {Str("completed"), Str("failed"), Str("cancelled")}

\* C25: every record of the log that carries an error message has status
\* failed
C25_ErrorOnlyOnFailed ==
    \A i \in DOMAIN Runs :
        Field(Runs[i], "error") # None => Field(Runs[i], "status") = Str("failed")

\* C23: in get_summary a value of a completed run that is a time series,
\* a string, a boolean or null contributes nothing to metric_summary: the
\* count of an entry is the number of completed runs holding a plain
\* number for the key, and a key without such a run has no entry
MetricKeys == UNION {DOMAIN Metrics(Runs[i]).val : i \in DOMAIN Runs}
C23_OnlyNumbersSummarized ==
    (SummaryOf /\ Runs # <<>>)
    => LET ms == last.ret.val["metric_summary"].val
       IN  /\ DOMAIN ms = {key \in MetricKeys : CompletedWith(key) # {}}
           /\ \A key \in DOMAIN ms :
                ms[key].val["count"] = Num(Cardinality(CompletedWith(key)))

\* ---------------------------------------------------------------------
\* The queries and the failures of end_run seen from the tracker

Queried == last'.op \in {"get_runs", "get_best_run", "get_summary"} /\ last' # last

\* C27: get_runs, get_best_run and get_summary change neither the log
\* file nor the active run, and what they return is computed from the
\* records of the file: the active run is never part of it
C27_QueriesReadOnly ==
    [][Queried =>
        /\ log_file' = log_file /\ current_run' = current_run /\ run_id' = run_id
        /\ last'.raised = None
        /\ (last'.op = "get_runs") => (last'.ret = List(Runs))
        /\ (last'.op = "get_best_run") =>
               (\/ last'.ret = None /\ Runs = <<>>
                \/ \E i \in DOMAIN Runs : last'.ret = Runs[i])
        /\ (last'.op = "get_summary") => (last'.ret.val["total_runs"] = Num(Len(Runs)))]_vars

C27_Witness ==
    /\ BestOf /\ last.maximize /\ last.metric = "snr"
    /\ current_run # None /\ Metrics(current_run).val["snr"] = Num(3)
    /\ Len(Runs) = 1 /\ HasScalar(Runs[1], "snr") /\ last.ret = Runs[1]

\* C28: when end_run fails opening or writing the log file, the run is
\* still active as it was before the call, with status running and no
\* end_time, error or duration, and the log has no new record
C28_FailedEndLeavesRun ==
    (last.op = "end_run" /\ last.raised = WriteFailed)
    => /\ current_run # None
       /\ Field(current_run, "status") = Str("running")
       /\ Field(current_run, "end_time") = None
       /\ Field(current_run, "error") = None
       /\ "duration_seconds" \notin DOMAIN current_run.val

\* ---------------------------------------------------------------------
\* run_pipeline_from_config

Invoked == last'.op = "run_pipeline_from_config" /\ uuid_count' = uuid_count + 1
RecordsOf(runs, id) == {i \in DOMAIN runs : Field(runs[i], "run_id") = id}

\* C29: every invocation that starts a run leaves exactly one record of
\* it in the log: completed, with the evaluation metrics and the results
\* directory as artifact, when it returns; failed, with the message of the
\* exception, when it raises
C29_PipelineRecordsRun ==
    [][Invoked =>
        LET id == Str(uuid4(uuid_count'))
            I == RecordsOf(Runs', id)
        IN  /\ Cardinality(I) = 1
            /\ \A i \in I :
                 IF last'.raised = None
                 THEN /\ Field(Runs'[i], "status") = Str("completed")
                      /\ Field(Runs'[i], "metrics") = last'.metrics
                      /\ Len(Field(Runs'[i], "artifacts").val) = 1
                      /\ Field(Runs'[i], "artifacts").val[1].val["type"] = Str("results_directory")
                 ELSE /\ Field(Runs'[i], "status") = Str("failed")
                      /\ Field(Runs'[i], "error") = Str(last'.raised.val)]_vars

\* ---------------------------------------------------------------------
\* Concurrent writers

\* C26: when the trackers on the same log have ended their runs, whatever
\* the interleaving of their writes, the log reads back as the records
\* they wrote, each exactly once and each on a line of its own
C26_ConcurrentRecordsWhole ==
    (\A p \in Trackers : trackers[p].pc = "idle")
    => /\ get_runs(log_file).raised = None
       /\ Len(Runs) = Len(ended)
       /\ \A k \in DOMAIN ended : Cardinality({i \in DOMAIN Runs : Runs[i] = ended[k]}) = 1

\* ---------------------------------------------------------------------
\* Chunked upload

\* the bytes last uploaded for each chunk index, in ascending index order
RECURSIVE InIndexOrder(_, _)
InIndexOrder(chunks, indexes) ==
    IF indexes = {} THEN <<>>
    ELSE LET least == CHOOSE i \in indexes : \A j \in indexes : i <= j
         IN  chunks[least] \o InIndexOrder(chunks, indexes \ {least})

\* C30: the file finalize_upload produces is the concatenation, in
\* ascending chunk_index order, of the bytes last uploaded for each chunk
\* index, and after a successful finalize the session is gone: later
\* upload_chunk and finalize_upload calls for the upload_id return 404
C30_FinalizedFile ==
    [][/\ (last'.op = "finalize_upload" /\ last'.raised = None)
          => /\ storage'[last'.ret.file_path]
                  = InIndexOrder(uploaded[last'.upload_id], DOMAIN uploaded[last'.upload_id])
             /\ last'.upload_id \notin DOMAIN temp_dirs'
       /\ (/\ last'.op \in {"upload_chunk", "finalize_upload"}
           /\ last'.upload_id \in DOMAIN uploaded
           /\ last'.upload_id \notin DOMAIN temp_dirs)
          => last'.raised = HTTPException(404)]_vars

====
